---- MODULE Spec2Model ----
(***************************************************************************)
(* Model of split_table_batched_embedding_bags.py: the input configuration *)
(* iterator, the request generator (generate_requests / get_data) and the  *)
(* operator wrapper.  Three specifications share the variables:            *)
(*   Spec      one get_data call on a drawn config / environment           *)
(*   SpecIter  repeated __next__ on one iterator instance                  *)
(*   SpecOp    call sequences on one SplitTableBatchedEmbeddingOp          *)
(***************************************************************************)
EXTENDS Integers, Sequences, FiniteSets, TLC

VARIABLES
    \* ---- get_data ----
    config,      \* the config argument of get_data
    environ,     \* os.environ restricted to the four split_embedding_* names
    files,       \* content of the tensor file a resolved path points to, per kind
    pc,          \* "ready" before the get_data call, "done" after it
    outcome,     \* what the get_data call did: see result, calls, draws, loads
    \* ---- SplitTableBatchedEmbeddingInputIterator ----
    configs,     \* self.configs: the "build" block and the input groups under self.key
    gen,         \* the suspended frame of self._generator()
    events,      \* outcome of every __next__ so far
    \* ---- SplitTableBatchedEmbeddingOp ----
    device,      \* self.device
    op,          \* self.op      (0 is None, n > 0 the n-th operator built)
    fwd_out,     \* self.fwd_out (0 is None, n > 0 an output of operator n)
    grad_in,     \* self.grad_in (0 is None, n > 0 shaped like an output of operator n)
    builds,      \* operators constructed so far
    last,        \* the last call on the wrapper and whether it returned
    builtSince,  \* a build returned since the last cleanup
    fwdSince     \* a forward returned since the last cleanup

dataVars == <<config, environ, files, pc, outcome>>

result == outcome.result   \* what get_data returned or raised
calls == outcome.calls     \* the generate_requests invocations of the call, in order
draws == outcome.draws     \* number of random values drawn during the call
loads == outcome.loads     \* the torch.load invocations of the call, in order
iterVars == <<configs, gen, events>>
opVars == <<device, op, fwd_out, grad_in, builds, last, builtSince, fwdSince>>
vars == <<dataVars, iterVars, opVars>>

\* ------------------------------------------------------------------ bounds
MaxTables == 2
MaxBatch == 2
MaxPool == 2
MaxRows == 2
MaxLoadLen == 2
MaxGroups == 2
MaxStops == 2
MaxBuilds == 3

\* ------------------------------------------------------------- Python values
\* An optional value: None, or a one-element wrapper around the value.
None == <<>>
Some(x) == <<x>>

Last(s) == s[Len(s)]

RECURSIVE SeqSum(_)
SeqSum(s) == IF s = <<>> THEN 0 ELSE s[1] + SeqSum(Tail(s))

RECURSIVE Flatten(_)
Flatten(ss) == IF ss = <<>> THEN <<>> ELSE ss[1] \o Flatten(Tail(ss))

\* ------------------------------------------------------------ random source
\* States the process-wide random source may be in when a call starts.
Seeds == {0, 1, 2}

\* The k-th raw value of the stream started at seed s.
RandRaw(s, k) == s + k * (s + 1)

\* torch.randint(low=0, high=E, size=(n,)): n values of [0, E), taken from the
\* stream behind position pos.
randint(E, n, s, pos) == [i \in 1..n |-> RandRaw(s, pos + i) % E]

\* np.random.zipf(a, size=n): n values >= 1.
zipf(n, s, pos) == [i \in 1..n |-> 1 + RandRaw(s, pos + i)]

\* torch.randn(n): n floats; only their position in the stream is kept.
randn(n, s, pos) == [i \in 1..n |-> RandRaw(s, pos + i)]

\* ------------------------------------------------------- generate_requests
\* alpha is kept in tenths: 5 is 0.5, 10 is 1.0.
Half == 5
One == 10

arange(n) == [i \in 1..n |-> i - 1]

RECURSIVE cumsum(_)
cumsum(s) ==
    IF s = <<>> THEN <<>>
    ELSE LET front == cumsum(SubSeq(s, 1, Len(s) - 1))
         IN  Append(front, (IF front = <<>> THEN 0 ELSE Last(front)) + Last(s))

\* np.ones(B) * L
ones_times(B, L) == [i \in 1..B |-> L]

\* IndicesOf with the alpha == 0 branch reduced modulo E instead of L.
IndicesOfByRows(B, L, E, alpha, s, pos) ==
    LET indices_size == B * L
    IN  IF alpha <= Half THEN
            [i \in 1..indices_size |-> arange(indices_size)[i] % E]
        ELSE IF alpha <= One THEN
            randint(E, indices_size, s, pos)
        ELSE
            [i \in 1..indices_size |-> zipf(indices_size, s, pos)[i] % E]

\* The indices of one table, by the four branches on alpha.
IndicesOf(B, L, E, alpha, s, pos) ==
    LET indices_size == B * L
    IN  IF alpha = 0 THEN
            [i \in 1..indices_size |-> arange(indices_size)[i] % L]
        ELSE IF alpha <= Half THEN
            [i \in 1..indices_size |-> arange(indices_size)[i] % E]
        ELSE IF alpha <= One THEN
            randint(E, indices_size, s, pos)
        ELSE
            [i \in 1..indices_size |-> zipf(indices_size, s, pos)[i] % E]

\* Random values the indices of one table consume.
IndexDraws(B, L, alpha) == IF alpha = 0 \/ alpha <= Half THEN 0 ELSE B * L

\* OffsetsOf without the shift by offset_start.
OffsetsOfUnshifted(B, L, offset_start) == cumsum(<<0>> \o ones_times(B, L))

\* The offsets of one table: a leading 0 when offset_start is 0, the cumulative
\* lengths shifted by offset_start otherwise.
OffsetsOf(B, L, offset_start) ==
    LET lengths == ones_times(B, L)
    IN  IF offset_start = 0 THEN cumsum(<<0>> \o lengths)
        ELSE [i \in 1..B |-> offset_start + cumsum(lengths)[i]]

\* torch.randn(indices_size) if weighted else None
WeightsOf(B, L, alpha, weighted, s, pos) ==
    IF weighted THEN Some(randn(B * L, s, pos + IndexDraws(B, L, alpha))) ELSE None

generate_requests(B, L, E, offset_start, alpha, weighted, s, pos) ==
    [indices |-> IndicesOf(B, L, E, alpha, s, pos),
     offsets |-> OffsetsOf(B, L, offset_start),
     weights |-> WeightsOf(B, L, alpha, weighted, s, pos),
     ndraws  |-> IndexDraws(B, L, alpha) + (IF weighted THEN B * L ELSE 0)]

\* ------------------------------------------------------------------ get_data
IndicesKey == "indices_tensor"
OffsetsKey == "offsets_tensor"
WeightsKey == "weights_tensor"
IndicesEnv == "split_embedding_indices"
OffsetsEnv == "split_embedding_offsets"
WeightsEnv == "split_embedding_weights"
DistributionEnv == "split_embedding_distribution"

\* os.getenv(name): None when the variable is unset.
getenv(env, name) == env[name]

\* float(): the decimal strings the environment may hold, and the int default 1,
\* as tenths.
float_of_str(str) ==
    CASE str = "0" -> 0
      [] str = "0.5" -> 5
      [] str = "1.0" -> 10
      [] str = "1.5" -> 15

float_of_int(n) == n * 10

Distribution(env) ==
    LET distribution == getenv(env, DistributionEnv)
    IN  IF distribution = None THEN float_of_int(1) ELSE float_of_str(distribution[1])

\* genericList_to_list(arg): the plain values of a generic-list argument.
genericList_to_list(arg) == [i \in 1..Len(arg.value) |-> arg.value[i].value]

RowsOf(cfg) ==
    IF cfg.num_tables > 1 THEN genericList_to_list(cfg.rows) ELSE <<cfg.rows.value>>

PoolingFactorsOf(cfg) ==
    IF cfg.num_tables > 1 THEN genericList_to_list(cfg.pooling) ELSE <<cfg.pooling.value>>

\* key in config["args"][4]
HasKey(cfg, key) == key \in DOMAIN cfg.pooling.extra

ConfigPair(cfg) == HasKey(cfg, IndicesKey) /\ HasKey(cfg, OffsetsKey)

\* indices_file without the environment fallback.
IndicesFileConfigOnly(cfg, env) ==
    IF ConfigPair(cfg) THEN Some(cfg.pooling.extra[IndicesKey]) ELSE None

indices_file(cfg, env) ==
    IF ConfigPair(cfg) THEN Some(cfg.pooling.extra[IndicesKey])
    ELSE getenv(env, IndicesEnv)

offsets_file(cfg, env) ==
    IF ConfigPair(cfg) THEN Some(cfg.pooling.extra[OffsetsKey])
    ELSE getenv(env, OffsetsEnv)

weights_file(cfg, env) ==
    IF ConfigPair(cfg) THEN
        IF cfg.weighted /\ HasKey(cfg, WeightsKey)
        THEN Some(cfg.pooling.extra[WeightsKey]) ELSE None
    ELSE
        IF cfg.weighted THEN getenv(env, WeightsEnv) ELSE None

\* NextOffsetStart that never advances.
NextOffsetStartStale(offsets) == 0

\* offset_start = offsets[-1].item()
NextOffsetStart(offsets) == Last(offsets)

\* The loop over the tables, from table i on.  acc carries the three lists, the
\* running offset_start, the stream position and the invocations made so far.
RECURSIVE GenLoop(_, _, _, _, _)
GenLoop(cfg, alpha, s, i, acc) ==
    IF i > cfg.num_tables THEN acc
    ELSE
        LET L == PoolingFactorsOf(cfg)[i]
            E == RowsOf(cfg)[i]
            r == generate_requests(cfg.batch_size, L, E, acc.offset_start,
                                   alpha, cfg.weighted, s, acc.draws)
        IN  GenLoop(cfg, alpha, s, i + 1,
                [indices_list |-> Append(acc.indices_list, r.indices),
                 offsets_list |-> Append(acc.offsets_list, r.offsets),
                 per_sample_weights_list |->
                     IF cfg.weighted
                     THEN Append(acc.per_sample_weights_list, r.weights[1])
                     ELSE acc.per_sample_weights_list,
                 offset_start |-> NextOffsetStart(r.offsets),
                 draws |-> acc.draws + r.ndraws,
                 calls |-> Append(acc.calls,
                     [B |-> cfg.batch_size, L |-> L, E |-> E,
                      offset_start |-> acc.offset_start, alpha |-> alpha,
                      weighted |-> cfg.weighted,
                      indices |-> r.indices, offsets |-> r.offsets,
                      weights |-> r.weights])])

EmptyAcc ==
    [indices_list |-> <<>>, offsets_list |-> <<>>, per_sample_weights_list |-> <<>>,
     offset_start |-> 0, draws |-> 0, calls |-> <<>>]

Raised(error, ld) ==
    [result |-> [status |-> "raised", error |-> error,
                 indices |-> <<>>, offsets |-> <<>>, weights |-> None],
     calls |-> <<>>, draws |-> 0, loads |-> ld]

\* The tail of get_data: the three tensors moved to the target device.
Returned(indices_tensor, offsets_tensor, per_sample_weights_tensor, weighted, cl, dr, ld) ==
    IF weighted /\ per_sample_weights_tensor = None THEN
        \* None.to(target_device)
        [Raised("AttributeError", ld) EXCEPT !.calls = cl, !.draws = dr]
    ELSE
        [result |-> [status |-> "returned", error |-> "",
                     indices |-> indices_tensor, offsets |-> offsets_tensor,
                     weights |-> IF weighted THEN per_sample_weights_tensor ELSE None],
         calls |-> cl, draws |-> dr, loads |-> ld]

\* torch.load raises when the file cannot be read.
LoadBranch(cfg, env, fs) ==
    IF fs.indices = None THEN Raised("load", <<"indices">>)
    ELSE IF fs.offsets = None THEN Raised("load", <<"indices", "offsets">>)
    ELSE IF weights_file(cfg, env) # None THEN
        IF fs.weights = None THEN Raised("load", <<"indices", "offsets", "weights">>)
        ELSE Returned(fs.indices[1], fs.offsets[1], fs.weights, cfg.weighted,
                      <<>>, 0, <<"indices", "offsets", "weights">>)
    ELSE Returned(fs.indices[1], fs.offsets[1], None, cfg.weighted,
                  <<>>, 0, <<"indices", "offsets">>)

GenerateBranch(cfg, env, s) ==
    LET acc == GenLoop(cfg, Distribution(env), s, 1, EmptyAcc)
    IN  Returned(Flatten(acc.indices_list), Flatten(acc.offsets_list),
                 IF cfg.weighted THEN Some(Flatten(acc.per_sample_weights_list)) ELSE None,
                 cfg.weighted, acc.calls, acc.draws, <<>>)

OverrideMode(cfg, env) == indices_file(cfg, env) # None /\ offsets_file(cfg, env) # None

get_data(cfg, env, fs, s) ==
    IF OverrideMode(cfg, env) THEN LoadBranch(cfg, env, fs)
    ELSE GenerateBranch(cfg, env, s)

\* --------------------------------------------------- inputs of a get_data call
Arg(v) == [value |-> v]

GenericList(vs) == [value |-> [i \in 1..Len(vs) |-> Arg(vs[i])]]

\* config["args"] for n tables; extra maps the override keys present on
\* argument 4 to their paths.
MkConfig(n, rows, B, pooling, weighted, extra) ==
    [num_tables |-> n,
     rows |-> IF n > 1 THEN GenericList(rows) ELSE Arg(rows[1]),
     batch_size |-> B,
     pooling |-> [value |-> IF n > 1 THEN GenericList(pooling).value ELSE pooling[1],
                  extra |-> extra],
     weighted |-> weighted]

OverrideKeys == {IndicesKey, OffsetsKey, WeightsKey}
OverrideEnvs == {IndicesEnv, OffsetsEnv, WeightsEnv}

ExtraFor(S) == [k \in S |-> "config/" \o k]

EnvFor(S, dist) ==
    [n \in OverrideEnvs \cup {DistributionEnv} |->
        IF n = DistributionEnv THEN dist
        ELSE IF n \in S THEN Some("env/" \o n) ELSE None]

Distributions == {None, Some("0"), Some("0.5"), Some("1.0"), Some("1.5")}

FileTensors == {None} \cup {Some([i \in 1..n |-> 0]) : n \in 1..MaxLoadLen}

NoFiles == [indices |-> None, offsets |-> None, weights |-> None]

\* Generation mode over every table count, batch size, pooling factor and row count.
InitGenerate ==
    /\ \E n \in 1..MaxTables, B \in 0..MaxBatch, weighted \in BOOLEAN :
       \E rows \in [1..n -> 1..MaxRows], pooling \in [1..n -> 0..MaxPool] :
          config = MkConfig(n, rows, B, pooling, weighted, ExtraFor({}))
    /\ \E dist \in Distributions : environ = EnvFor({}, dist)
    /\ files = NoFiles

\* Every combination of override keys, environment variables and file contents.
InitSources ==
    /\ \E weighted \in BOOLEAN, K \in SUBSET OverrideKeys :
          config = MkConfig(1, <<1>>, 1, <<1>>, weighted, ExtraFor(K))
    /\ \E S \in SUBSET OverrideEnvs, dist \in {None, Some("0")} : environ = EnvFor(S, dist)
    /\ files \in [{"indices", "offsets", "weights"} -> FileTensors]

\* The two worked scenarios: one table B=2, L=3, E=10, and two tables B=2, L=2, E=5,
\* both with alpha = 0 and unweighted.
ScenarioOne == MkConfig(1, <<10>>, 2, <<3>>, FALSE, ExtraFor({}))
ScenarioTwo == MkConfig(2, <<5, 5>>, 2, <<2, 2>>, FALSE, ExtraFor({}))

InitScenario ==
    /\ config \in {ScenarioOne, ScenarioTwo}
    /\ environ = EnvFor({}, Some("0"))
    /\ files = NoFiles

NoResult ==
    [status |-> "none", error |-> "", indices |-> <<>>, offsets |-> <<>>, weights |-> None]

NoOutcome == [result |-> NoResult, calls |-> <<>>, draws |-> 0, loads |-> <<>>]

IterIdle == configs = <<>> /\ gen = <<>> /\ events = <<>>

OpIdle ==
    /\ device = "" /\ op = 0 /\ fwd_out = 0 /\ grad_in = 0 /\ builds = 0
    /\ last = [call |-> "", ok |-> TRUE] /\ builtSince = FALSE /\ fwdSince = FALSE

DataIdle ==
    /\ config = <<>> /\ environ = <<>> /\ files = <<>> /\ pc = "idle"
    /\ outcome = NoOutcome

Init ==
    /\ InitGenerate \/ InitSources \/ InitScenario
    /\ pc = "ready"
    /\ outcome = NoOutcome
    /\ IterIdle /\ OpIdle

\* One call of SplitTableBatchedEmbeddingInputDataGenerator.get_data.
GetData ==
    /\ pc = "ready"
    /\ \E s \in Seeds : outcome' = get_data(config, environ, files, s)
    /\ pc' = "done"
    /\ UNCHANGED <<config, environ, files, iterVars, opVars>>

Next == GetData

Spec == Init /\ [][Next]_vars

\* ================================================================ get_data claims
Done == pc = "done"

\* The call ran generation mode and returned a batch.
GeneratedBatch == Done /\ result.status = "returned" /\ loads = <<>>

IsScenarioOne == config.num_tables = 1 /\ config = ScenarioOne
IsScenarioTwo == config.num_tables = 2 /\ config = ScenarioTwo

NonDecreasing(q) == \A i \in 1..(Len(q) - 1) : q[i] <= q[i + 1]

\* C2: in generation mode the concatenated offsets are non-decreasing, start with 0
\* and end with len(indices), for every table count, batch size >= 0 and pooling
\* factors >= 0.
C2_OffsetsMonotone ==
    GeneratedBatch =>
        /\ NonDecreasing(result.offsets)
        /\ result.offsets[1] = 0
        /\ Last(result.offsets) = Len(result.indices)

\* A two-table batch whose first table has pooling factor 0.
C2_Witness ==
    /\ GeneratedBatch
    /\ config.num_tables = 2 /\ config.batch_size = 2
    /\ PoolingFactorsOf(config) = <<0, 2>>
    /\ result.offsets = <<0, 0, 0, 0, 2, 4>>
    /\ Len(result.indices) = 4

\* C3: every index generated for table i lies in [0, rows_i), for every alpha, B, L
\* and E > 0, including L > E.
C3_IndicesInRange ==
    GeneratedBatch =>
        \A k \in 1..Len(calls) :
            \A i \in 1..Len(calls[k].indices) :
                0 <= calls[k].indices[i] /\ calls[k].indices[i] < calls[k].E

\* C4: in generation mode the concatenated offsets have exactly num_tables*B + 1
\* entries, also when a table has pooling factor 0 (stated for B >= 1).
C4_OffsetsLength ==
    (GeneratedBatch /\ config.batch_size >= 1) =>
        Len(result.offsets) = config.num_tables * config.batch_size + 1

\* The weights file, when there is one, holds one weight per index of the indices file.
FilesAgree ==
    \/ files.indices = None
    \/ files.weights = None
    \/ Len(files.weights[1]) = Len(files.indices[1])

\* C5: every get_data call whose loads succeed returns a batch with weights None when
\* weighted is False and with len(weights) = len(indices) when weighted is True, in
\* generation and in override mode, with or without a weights source.
C5_WeightsShape ==
    (Done /\ result.error # "load" /\ FilesAgree) =>
        /\ result.status = "returned"
        /\ ~config.weighted => result.weights = None
        /\ config.weighted =>
              /\ result.weights # None
              /\ Len(result.weights[1]) = Len(result.indices)

IndicesSupplied == HasKey(config, IndicesKey) \/ getenv(environ, IndicesEnv) # None
OffsetsSupplied == HasKey(config, OffsetsKey) \/ getenv(environ, OffsetsEnv) # None

\* Both sources come from the same place: the two config keys, or the two
\* environment variables.
PairSupplied ==
    \/ HasKey(config, IndicesKey) /\ HasKey(config, OffsetsKey)
    \/ getenv(environ, IndicesEnv) # None /\ getenv(environ, OffsetsEnv) # None

NoGeneration == calls = <<>> /\ draws = 0

\* The call went to torch.load: a returned batch is the files' content, and an
\* unreadable file makes the call raise.
LoadedOrRaised ==
    /\ Len(loads) >= 1 /\ loads[1] = "indices"
    /\ result.status = "returned" =>
          /\ result.indices = files.indices[1]
          /\ result.offsets = files.offsets[1]
    /\ (files.indices = None \/ files.offsets = None) =>
          result.status = "raised" /\ result.error = "load"

\* C6 as stated: whenever an indices source and an offsets source are supplied, each
\* by config key or by environment variable, the tensors are loaded,
\* generate_requests is never called and nothing is drawn.
C6_AnySources ==
    (Done /\ IndicesSupplied /\ OffsetsSupplied) => (NoGeneration /\ LoadedOrRaised)

\* C6 amended: whenever both sources are supplied by the two config keys, or both by
\* the two environment variables, the tensors are loaded, generate_requests is never
\* called and nothing is drawn; a failing load raises; and a call that generated
\* loaded nothing.
C6_PairedSources ==
    Done =>
        /\ PairSupplied => (NoGeneration /\ LoadedOrRaised)
        /\ calls # <<>> => loads = <<>>

\* Override by environment fallback while config carries only the indices key, the
\* offsets file being unreadable.
C6_Witness ==
    /\ Done
    /\ HasKey(config, IndicesKey) /\ ~HasKey(config, OffsetsKey)
    /\ getenv(environ, IndicesEnv) # None /\ getenv(environ, OffsetsEnv) # None
    /\ files.indices # None /\ files.offsets = None
    /\ result.status = "raised" /\ loads = <<"indices", "offsets">> /\ calls = <<>>

\* The j-th of the B bag boundaries of an invocation, counted from the end of its
\* offsets (which carry one more, leading, entry when offset_start is 0).
Boundary(c, j) == c.offsets[Len(c.offsets) - c.B + j]

Carried ==
    \A k \in 1..(Len(calls) - 1) : calls[k + 1].offset_start = Last(calls[k].offsets)

\* C8 as stated: the offset_start of table k+1 is the last offset of table k, and
\* table k+1's offsets are shifted by it and begin at it.
C8_BeginsAtStart ==
    GeneratedBatch =>
        /\ Carried
        /\ \A k \in 2..Len(calls) :
              /\ \A j \in 1..calls[k].B :
                    Boundary(calls[k], j) = calls[k].offset_start + j * calls[k].L
              /\ calls[k].B >= 1 => calls[k].offsets[1] = calls[k].offset_start

\* C8 amended: the offset_start of table k+1 is the last offset of table k; the j-th
\* bag boundary of table k+1 is offset_start + j*L; with offset_start # 0 its offsets
\* are exactly these B boundaries, so they begin at offset_start + L, not at
\* offset_start; and len(indices) is the sum of B*L over the tables (two tables with
\* B=2, L=2: table 1 gets offset_start 4, offsets [6, 8], and 8 indices in all).
C8_Chaining ==
    GeneratedBatch =>
        /\ Carried
        /\ \A k \in 2..Len(calls) :
              /\ \A j \in 1..calls[k].B :
                    Boundary(calls[k], j) = calls[k].offset_start + j * calls[k].L
              /\ calls[k].offset_start # 0 =>
                    /\ Len(calls[k].offsets) = calls[k].B
                    /\ calls[k].offsets[1] = calls[k].offset_start + calls[k].L
        /\ Len(result.indices) =
              SeqSum([k \in 1..Len(calls) |-> calls[k].B * calls[k].L])
        /\ IsScenarioTwo =>
              /\ calls[2].offset_start = 4
              /\ calls[2].offsets = <<6, 8>>
              /\ Len(result.indices) = 8

C8_Witness ==
    /\ GeneratedBatch
    /\ IsScenarioTwo
    /\ calls[2].offset_start = 4
    /\ result.offsets = <<0, 2, 4, 6, 8>>

\* C9: for L > 0 and E > 0 the sampler returns B*L indices, index i being i mod L
\* when alpha = 0 and i mod E when 0 < alpha <= 0.5 (B=2, L=3, E=10, alpha=0,
\* offset_start=0: indices [0,1,2,0,1,2], offsets [0,3,6]).
C9_LinearBranches ==
    GeneratedBatch =>
        /\ \A k \in 1..Len(calls) :
              LET c == calls[k] IN
              c.L > 0 =>
                  /\ Len(c.indices) = c.B * c.L
                  /\ c.alpha = 0 =>
                        \A i \in 1..Len(c.indices) : c.indices[i] = (i - 1) % c.L
                  /\ (0 < c.alpha /\ c.alpha <= Half) =>
                        \A i \in 1..Len(c.indices) : c.indices[i] = (i - 1) % c.E
        /\ IsScenarioOne =>
              /\ result.indices = <<0, 1, 2, 0, 1, 2>>
              /\ result.offsets = <<0, 3, 6>>
              /\ result.weights = None

C9_Witness ==
    /\ GeneratedBatch
    /\ IsScenarioOne
    /\ calls[1].alpha = 0 /\ calls[1].offset_start = 0
    /\ result.indices = <<0, 1, 2, 0, 1, 2>>

\* ===================================== SplitTableBatchedEmbeddingInputIterator
\* full_range(start, stop, step): start, start+step, ... up to and including stop.
full_range(start, stop, step) ==
    [i \in 1..((stop - start) \div step + 1) |-> start + (i - 1) * step]

\* IterableList(values): the values in their order.
IterableList(values) == values

\* TableProduct(arg): the values one axis ranges over, a single value for a literal.
TableProduct(arg) ==
    IF arg.kind = "literal" THEN <<arg.value>> ELSE arg.value

\* Lines 67-72: the axes of one input group, expanded.
ExpandArg(arg) ==
    TableProduct(
        IF arg.kind = "__range__"
        THEN [arg EXCEPT !.value = full_range(arg.value[1], arg.value[2], arg.value[3])]
        ELSE IF arg.kind = "__list__"
        THEN [arg EXCEPT !.value = IterableList(arg.value)]
        ELSE arg)

\* ListProduct(args): the points of the cartesian product, the last axis fastest.
RECURSIVE ListProduct(_)
ListProduct(args) ==
    IF args = <<>> THEN << <<>> >>
    ELSE LET rest == ListProduct(Tail(args))
         IN  Flatten([i \in 1..Len(args[1]) |->
                         [j \in 1..Len(rest) |-> <<args[1][i]>> \o rest[j]]])

\* The product a group is expanded to.
ProductOf(input) == ListProduct([a \in 1..Len(input.args) |-> ExpandArg(input.args[a])])

\* remove_meta_attr(config): the yielded result carries no meta attribute.
remove_meta_attr(cfg) == cfg

\* f"{var_id}_{config_id}"
FormatId(var_id, config_id) == ToString(var_id) \o "_" \o ToString(config_id)

\* The build-time parameters __init__ copies from configs["build"]["args"].
IterFields(cs) ==
    [num_tables |-> cs.build.args[1], rows |-> cs.build.args[2], dim |-> cs.build.args[3],
     weighted |-> cs.build.args[6], weights_precision |-> cs.build.args[7]]

\* The result dict built for one point of the product.
ResultOf(cs, arg_config) ==
    LET self == IterFields(cs)
        batch_size == arg_config[1]
        pooling_factor == arg_config[2]
    IN  [args |-> <<self.num_tables, self.rows, self.dim, batch_size, pooling_factor,
                    self.weighted, self.weights_precision>>,
         kwargs |-> <<>>]

\* NextConfigId without the increment.
NextConfigIdStuck(config_id) == config_id

\* config_id += 1, on resuming after a yield
NextConfigId(config_id) == config_id + 1

\* var_id when the loop moves on to the next input group: the loop body never
\* assigns it.
NextVarId(var_id) == var_id

\* The frame of a generator that has not run yet: var_id = 0 is its first statement.
NewFrame == [started |-> FALSE, finished |-> FALSE, g |-> 1, k |-> 0,
             var_id |-> 0, config_id |-> 0]

\* Run the generator from "for arg_config in ListProduct(args)" of group g, k
\* points of which are consumed, up to the next yield or the end of the function.
RECURSIVE Seek(_, _, _, _, _)
Seek(cs, g, k, var_id, config_id) ==
    IF g > Len(cs.input) THEN
        [frame |-> [started |-> TRUE, finished |-> TRUE, g |-> g, k |-> 0,
                    var_id |-> var_id, config_id |-> config_id],
         yielded |-> None]
    ELSE IF k < Len(ProductOf(cs.input[g])) THEN
        [frame |-> [started |-> TRUE, finished |-> FALSE, g |-> g, k |-> k + 1,
                    var_id |-> var_id, config_id |-> config_id],
         yielded |-> Some([id |-> FormatId(var_id, config_id),
                           config |-> remove_meta_attr(
                               ResultOf(cs, ProductOf(cs.input[g])[k + 1]))])]
    ELSE Seek(cs, g + 1, 0, NextVarId(var_id), 0)

\* next(self.generator)
Resume(cs, frame) ==
    IF frame.finished THEN [frame |-> frame, yielded |-> None]
    ELSE IF ~frame.started THEN Seek(cs, 1, 0, 0, 0)
    ELSE Seek(cs, frame.g, frame.k, frame.var_id, NextConfigId(frame.config_id))

LiteralArg(v) == [kind |-> "literal", value |-> v]
ListArg(vs) == [kind |-> "__list__", value |-> vs]
RangeArg(a, b, c) == [kind |-> "__range__", value |-> <<a, b, c>>]

\* The axis declarations a group draws its batch sizes and pooling factors from.
BatchAxes == <<LiteralArg(32), ListArg(<<32, 64>>), RangeArg(32, 96, 32)>>
PoolingAxes == <<LiteralArg(4), ListArg(<<4, 8>>), RangeArg(4, 8, 4)>>

BuildBlock == [args |-> <<1, 1000, 64, 0, 0, FALSE, "fp16", "exact_sgd">>]

InitIter ==
    /\ \E n \in 1..MaxGroups :
       \E b \in [1..n -> DOMAIN BatchAxes], p \in [1..n -> DOMAIN PoolingAxes] :
          configs = [build |-> BuildBlock,
                     input |-> [g \in 1..n |->
                                   [args |-> <<BatchAxes[b[g]], PoolingAxes[p[g]]>>]]]
    /\ gen = NewFrame
    /\ events = <<>>
    /\ DataIdle /\ OpIdle

Stops == Len(SelectSeq(events, LAMBDA e : e.kind = "stop"))

\* SplitTableBatchedEmbeddingInputIterator.__next__
IterNext ==
    /\ Stops < MaxStops
    /\ LET r == Resume(configs, gen)
       IN  /\ gen' = r.frame
           /\ events' = Append(events,
                  IF r.yielded = None
                  THEN [kind |-> "stop", g |-> 0, var_id |-> 0, config_id |-> 0,
                        id |-> "", config |-> <<>>]
                  ELSE [kind |-> "yield", g |-> r.frame.g, var_id |-> r.frame.var_id,
                        config_id |-> r.frame.config_id,
                        id |-> r.yielded[1].id, config |-> r.yielded[1].config])
    /\ UNCHANGED <<configs, dataVars, opVars>>

NextIter == IterNext

SpecIter == InitIter /\ [][NextIter]_vars

\* ------------------------------------------------------------ iterator claims
Yields == SelectSeq(events, LAMBDA e : e.kind = "yield")

YieldsOf(g) == SelectSeq(events, LAMBDA e : e.kind = "yield" /\ e.g = g)

\* C1: every identifier yielded by one iterator instance differs from every
\* identifier yielded before it, for one or more input groups.
C1_IdsDistinct ==
    \A i \in 1..Len(Yields) : \A j \in 1..Len(Yields) :
        i # j => Yields[i].id # Yields[j].id

\* Number of values an axis declares, and the i-th of them.
AxisSize(arg) ==
    CASE arg.kind = "literal" -> 1
      [] arg.kind = "__list__" -> Len(arg.value)
      [] arg.kind = "__range__" -> (arg.value[2] - arg.value[1]) \div arg.value[3] + 1

AxisValue(arg, i) ==
    CASE arg.kind = "literal" -> arg.value
      [] arg.kind = "__list__" -> arg.value[i]
      [] arg.kind = "__range__" -> arg.value[1] + (i - 1) * arg.value[3]

\* The generator is done with group g: it yielded from a later group, or stopped.
PastGroup(g) == \E i \in 1..Len(events) : events[i].kind = "stop" \/ events[i].g > g

TotalPoints ==
    SeqSum([g \in 1..Len(configs.input) |->
               AxisSize(configs.input[g].args[1]) * AxisSize(configs.input[g].args[2])])

\* C7: a group with m batch sizes and n pooling factors yields exactly m*n pairs, the
\* k-th being point k of the product (pooling factor fastest) under config_id k-1,
\* every id of the group once; once the last group is enumerated every further
\* __next__ signals the end and nothing is yielded again.
C7_ProductEnumeration ==
    /\ \A g \in 1..Len(configs.input) :
          LET ys == YieldsOf(g)
              batch == configs.input[g].args[1]
              pooling == configs.input[g].args[2]
              m == AxisSize(batch)
              n == AxisSize(pooling)
          IN  /\ Len(ys) <= m * n
              /\ PastGroup(g) => Len(ys) = m * n
              /\ \A k \in 1..Len(ys) :
                    /\ ys[k].config_id = k - 1
                    /\ ys[k].id = FormatId(ys[k].var_id, k - 1)
                    /\ ys[k].config.args[4] = AxisValue(batch, (k - 1) \div n + 1)
                    /\ ys[k].config.args[5] = AxisValue(pooling, ((k - 1) % n) + 1)
                    /\ \A j \in 1..Len(ys) : j # k => ys[j].id # ys[k].id
    /\ \A i \in 1..Len(events) : \A j \in 1..Len(events) :
          (i < j /\ events[i].kind = "stop") => events[j].kind = "stop"
    /\ \A i \in 1..Len(events) :
          events[i].kind = "stop" => Len(Yields) = TotalPoints

\* {32,64} x {4,8} enumerated to its 4 ids, followed by two end-of-sequence signals.
C7_Witness ==
    /\ Len(configs.input) = 1
    /\ configs.input[1].args[1].kind = "__list__"
    /\ configs.input[1].args[1].value = <<32, 64>>
    /\ configs.input[1].args[2].kind = "__list__"
    /\ configs.input[1].args[2].value = <<4, 8>>
    /\ [i \in 1..Len(Yields) |-> Yields[i].id] = <<"0_0", "0_1", "0_2", "0_3">>
    /\ Yields[2].config.args[4] = 32 /\ Yields[2].config.args[5] = 8
    /\ Stops = 2

\* ================================================ SplitTableBatchedEmbeddingOp
\* Device strings the harness may set on the wrapper.
Devices == {"cpu", "cuda", "cuda:0", "xpu"}

\* self.device.startswith("cpu") / .startswith("cuda")
StartsWithCpu(d) == d \in {"cpu"}
StartsWithCuda(d) == d \in {"cuda", "cuda:0"}

\* CleanupFields that keeps the forward output.
CleanupKeepsOutput == [op |-> 0, grad_in |-> 0, fwd_out |-> fwd_out]

\* What cleanup leaves in op, grad_in and fwd_out.
CleanupFields == [op |-> 0, grad_in |-> 0, fwd_out |-> 0]

\* __init__: cleanup(), then fwd_out = None and grad_in = None.
InitOp ==
    /\ device \in Devices
    /\ op = 0 /\ fwd_out = 0 /\ grad_in = 0
    /\ builds = 0
    /\ last = [call |-> "__init__", ok |-> TRUE]
    /\ builtSince = FALSE /\ fwdSince = FALSE
    /\ DataIdle /\ IterIdle

\* build(...): ValueError for an unknown device; otherwise the external constructor
\* returns a new operator or raises.
Build ==
    /\ builds < MaxBuilds
    /\ \E constructed \in BOOLEAN :
          LET ok == (StartsWithCpu(device) \/ StartsWithCuda(device)) /\ constructed
          IN  /\ op' = IF ok THEN builds + 1 ELSE op
              /\ builds' = IF ok THEN builds + 1 ELSE builds
              /\ last' = [call |-> "build", ok |-> ok]
              /\ builtSince' = (builtSince \/ ok)
    /\ UNCHANGED <<device, fwd_out, grad_in, fwdSince, dataVars, iterVars>>

\* cleanup()
Cleanup ==
    /\ op' = CleanupFields.op
    /\ grad_in' = CleanupFields.grad_in
    /\ fwd_out' = CleanupFields.fwd_out
    /\ last' = [call |-> "cleanup", ok |-> TRUE]
    /\ builtSince' = FALSE /\ fwdSince' = FALSE
    /\ UNCHANGED <<device, builds, dataVars, iterVars>>

\* forward(*args): self.op.forward raises on None, and the external forward may raise.
Forward ==
    /\ \E computed \in BOOLEAN :
          LET ok == op # 0 /\ computed
          IN  /\ fwd_out' = IF ok THEN op ELSE fwd_out
              /\ last' = [call |-> "forward", ok |-> ok]
              /\ fwdSince' = (fwdSince \/ ok)
    /\ UNCHANGED <<device, op, grad_in, builds, builtSince, dataVars, iterVars>>

\* create_grad(): torch.ones_like(None) raises.
CreateGrad ==
    /\ grad_in' = IF fwd_out # 0 THEN fwd_out ELSE grad_in
    /\ last' = [call |-> "create_grad", ok |-> fwd_out # 0]
    /\ UNCHANGED <<device, op, fwd_out, builds, builtSince, fwdSince, dataVars, iterVars>>

\* backward(): self.fwd_out.backward raises on None, and the external backward may
\* raise; the wrapper's fields are not assigned.
Backward ==
    /\ \E propagated \in BOOLEAN :
          last' = [call |-> "backward", ok |-> fwd_out # 0 /\ propagated]
    /\ UNCHANGED <<device, op, fwd_out, grad_in, builds, builtSince, fwdSince,
                   dataVars, iterVars>>

NextOp == Build \/ Cleanup \/ Forward \/ CreateGrad \/ Backward

SpecOp == InitOp /\ [][NextOp]_vars

\* C10: cleanup leaves op, fwd_out and grad_in None; the output and its gradient are
\* not retained past cleanup; and after a cleanup a forward returns only after a new
\* build, a create_grad or backward only after a new build and a new forward.
C10_Lifecycle ==
    /\ last.call = "cleanup" => (op = 0 /\ fwd_out = 0 /\ grad_in = 0)
    /\ ~builtSince => op = 0
    /\ ~fwdSince => (fwd_out = 0 /\ grad_in = 0)
    /\ (last.call = "forward" /\ last.ok) => builtSince
    /\ (last.call \in {"create_grad", "backward"} /\ last.ok) => (builtSince /\ fwdSince)

\* A forward issued after a cleanup that followed a build, not rebuilt: it raised.
C10_Witness ==
    /\ builds >= 1 /\ ~builtSince
    /\ last = [call |-> "forward", ok |-> FALSE]
    /\ op = 0 /\ fwd_out = 0 /\ grad_in = 0

====
